---- MODULE Spec2Model ----
(***************************************************************************)
(* A model of the Landsat index / FVC scripts: the per-pixel functions     *)
(* (maskClouds, computeNDVI / computeNDBI / computeNDWI, calculateFVC),    *)
(* the band resolver, the temporal composite, the threshold estimation,    *)
(* and the four scripts (the FVC period loop of exports.calculateFVC, the  *)
(* batch NDVI period loop, exports.calculateNDVIStats, the metadata table).*)
(*                                                                         *)
(* Numbers are exact rationals <<num, den>> with den > 0 in lowest terms.  *)
(* A pair with den = 0 is not a number: NoValue (a masked pixel), NaN and  *)
(* Undefined (a JavaScript property the caller left out).                  *)
(***************************************************************************)
EXTENDS Integers, Sequences, FiniteSets, TLC

VARIABLES
    qa,          \* maskClouds harness: the QA_PIXEL value of the pixel
    maskOut,     \* maskClouds harness: <<>>, or <<the pixel's mask after updateMask>>
    idxIn,       \* index harness: [kind, sat, a, b, mode], a and b the DNs fed to A and B
    idxOut,      \* index harness: <<>>, or <<the index value>>
    fvcIn,       \* calculateFVC harness: [ndvi, soil, veg, mode]
    fvcOut,      \* calculateFVC harness: <<>>, or <<the FVC value>>
    aggIn,       \* composite harness: [stat, stack]
    aggOut,      \* composite harness: <<>>, or <<the composite value>>
    archive,     \* per time period, the scenes the catalogue holds for it (date and AOI filtered)
    platform,    \* what the platform yields for a division by zero
    args,        \* the params object as the caller passed it
    params,      \* the params object as the script has changed it
    config,      \* batch NDVI script: [enabled (satelliteConfig), statType]
    script,      \* what runs: "fvc", "ndvi batch", or one function on its own
    pc,          \* position of the running script
    idx,         \* index in timePeriods of the next period of the forEach loop
    thrown,      \* "none", or the error that ended the script
    exports,     \* the Export.image.toDrive requests made so far
    fvcCalls,    \* the calls of calculateFVC made so far: [period, soil, veg]
    log,         \* the print calls and pipeline steps so far: <<tag, period>>
    pending,     \* periods whose evaluate callback is registered and not yet delivered
    reported,    \* periods whose evaluate callback has run, in order
    satIn,       \* band resolver harness: [kind, id]
    bandsOut,    \* band resolver harness: <<>>, or <<what the resolver returned>>
    thrIn,       \* threshold harness: [raster, overBudget]
    thrOut,      \* threshold harness: <<>>, or <<what calculateNDVIThresholds returned>>
    timeIn,      \* table row harness: [time, date] of the scene
    timeOut,     \* table row harness: <<>>, or <<the row_data built for the scene>>
    cloud,       \* metadata script: [min, max], the cloud cover bounds in hundredths of a percent
    pathRowList, \* the path/row view as delivered to the script, <<>> before that
    tableData,   \* metadata script: the rows of the printed table, header first
    featureList, \* metadata script: the features handed to Export.table.toDrive
    tableExports \* metadata script: the Export.table.toDrive requests made so far

harness == <<qa, maskOut, idxIn, idxOut, fvcIn, fvcOut, aggIn, aggOut>>
world == <<archive, platform, args, config, script>>
driver == <<world, params, pc, idx, thrown, exports, fvcCalls, log, pending, reported>>
probe == <<satIn, bandsOut, thrIn, thrOut, timeIn, timeOut>>
meta == <<cloud, pathRowList, tableData, featureList, tableExports>>
extra == <<probe, meta>>
vars == <<harness, driver, extra>>

----------------------------------------------------------------------------
(* Exact arithmetic *)

Range(f) == {f[i] : i \in DOMAIN f}

Abs(x) == IF x < 0 THEN -x ELSE x

RECURSIVE GCD(_, _)
GCD(a, b) == IF b = 0 THEN a ELSE GCD(b, a % b)

\* the rational n/d (d # 0) in lowest terms with a positive denominator
Norm(n, d) ==
    LET s == IF d < 0 THEN -1 ELSE 1
        g == GCD(Abs(n), Abs(d))
    IN  <<(s * n) \div g, (s * d) \div g>>

NoValue == <<0, 0>>
NaN == <<1, 0>>
Undefined == <<2, 0>>

IsNum(x) == x[2] > 0

Zero == <<0, 1>>
One == <<1, 1>>
MinusOne == <<-1, 1>>

PosInf == <<3, 0>>
NegInf == <<4, 0>>

RatLt(x, y) == x[1] * y[2] < y[1] * x[2]
RatGt(x, y) == RatLt(y, x)
RatLe(x, y) == ~RatLt(y, x)

RatAdd(x, y) ==
    LET g == GCD(x[2], y[2])
    IN  Norm(x[1] * (y[2] \div g) + y[1] * (x[2] \div g), (x[2] \div g) * y[2])

RatNeg(x) == <<-x[1], x[2]>>
RatSub(x, y) == RatAdd(x, RatNeg(y))

RatMul(x, y) ==
    LET g1 == GCD(Abs(x[1]), y[2])
        g2 == GCD(Abs(y[1]), x[2])
    IN  Norm((x[1] \div g1) * (y[1] \div g2), (x[2] \div g2) * (y[2] \div g1))

\* x / y for numbers x and y, y # 0
RatDiv(x, y) == RatMul(x, IF y[1] < 0 THEN <<-y[2], -y[1]>> ELSE <<y[2], y[1]>>)

----------------------------------------------------------------------------
(* Image arithmetic of the platform, per pixel.  A value is a number,      *)
(* NoValue (masked), or, under IEEE division, NaN / PosInf / NegInf.       *)

\* what the platform yields for x / 0: 0 (the documented Image.divide), a
\* masked pixel, or the IEEE result; the scripts do not decide it
DivZeroModes == {"zero", "masked", "ieee"}

ImgSub(x, y) == IF IsNum(x) /\ IsNum(y) THEN RatSub(x, y) ELSE NoValue
ImgAdd(x, y) == IF IsNum(x) /\ IsNum(y) THEN RatAdd(x, y) ELSE NoValue

ImgDivide(x, y, mode) ==
    IF ~(IsNum(x) /\ IsNum(y)) THEN NoValue
    ELSE IF y # Zero THEN RatDiv(x, y)
    ELSE IF mode = "zero" THEN Zero
    ELSE IF mode = "masked" THEN NoValue
    ELSE IF x[1] > 0 THEN PosInf
    ELSE IF x[1] < 0 THEN NegInf
    ELSE NaN

\* image.lt(c) and image.gt(c): 1 where the comparison holds, else 0
ImgLt(x, c) == IF x = NegInf THEN 1 ELSE IF IsNum(x) /\ RatLt(x, c) THEN 1 ELSE 0
ImgGt(x, c) == IF x = PosInf THEN 1 ELSE IF IsNum(x) /\ RatGt(x, c) THEN 1 ELSE 0

\* image.where(test, value): value where test is non-zero; a masked pixel stays masked
ImgWhere(x, test, value) == IF x = NoValue THEN NoValue ELSE IF test # 0 THEN value ELSE x

\* a faulty variant of Clamp: the second where call is missing
ClampLowerOnly(x, lo, hi) == ImgWhere(x, ImgLt(x, lo), lo)

\* x = x.where(x.lt(lo), lo).where(x.gt(hi), hi): both tests read the unclamped x
Clamp(x, lo, hi) ==
    LET y == ImgWhere(x, ImgLt(x, lo), lo)
    IN  ImgWhere(y, ImgGt(x, hi), hi)

----------------------------------------------------------------------------
(* maskClouds *)

RECURSIVE BitAnd(_, _)
BitAnd(x, y) ==
    IF x = 0 \/ y = 0 THEN 0
    ELSE (x % 2) * (y % 2) + 2 * BitAnd(x \div 2, y \div 2)

RECURSIVE Shl(_, _)
Shl(x, n) == IF n = 0 THEN x ELSE Shl(2 * x, n - 1)

ImgOr(a, b) == IF a # 0 \/ b # 0 THEN 1 ELSE 0
ImgNot(a) == IF a = 0 THEN 1 ELSE 0

\* a faulty variant of CloudMask: the shadow test reads bit 5 instead of bit 4
CloudMaskWrongBit(q) == ImgOr(BitAnd(q, Shl(1, 3)), BitAnd(q, Shl(1, 5)))

\* qa.bitwiseAnd(1 << 3).or(qa.bitwiseAnd(1 << 4))
CloudMask(q) == ImgOr(BitAnd(q, Shl(1, 3)), BitAnd(q, Shl(1, 4)))

\* image.updateMask(cloudMask.not()): the pixel keeps its bands and gets the mask
maskClouds(px) == [px EXCEPT !["mask"] = px["mask"] * ImgNot(CloudMask(px["QA_PIXEL"]))]

----------------------------------------------------------------------------
(* Band selection and the three index functions *)

Satellites == {"L4", "L5", "L7", "L8", "L9"}

\* getBandNames of the NDVI scripts
getBandNames(satellite) ==
    IF satellite = "L8" \/ satellite = "L9"
    THEN [nir |-> "SR_B5", red |-> "SR_B4"]
    ELSE [nir |-> "SR_B4", red |-> "SR_B3"]

\* getBandNames of the NDBI script
getBandNamesNDBI(satellite) ==
    IF satellite = "L8" \/ satellite = "L9"
    THEN [swir |-> "SR_B7", nir |-> "SR_B5"]
    ELSE [swir |-> "SR_B7", nir |-> "SR_B4"]

\* getBandNames of the NDWI script
getBandNamesNDWI(satellite) ==
    IF satellite = "L8" \/ satellite = "L9"
    THEN [nir |-> "SR_B5", green |-> "SR_B3"]
    ELSE [nir |-> "SR_B4", green |-> "SR_B2"]

ScaleFactor == <<11, 400000>>   \* 0.0000275
ScaleOffset == <<-1, 5>>        \* -0.2

\* image.select(band).multiply(0.0000275).add(-0.2); masked where the pixel is masked
Rescale(px, band) ==
    IF px["mask"] = 0 THEN NoValue
    ELSE RatAdd(RatMul(<<px[band], 1>>, ScaleFactor), ScaleOffset)

\* image.expression('(a - b) / (a + b)', ...) followed by the two where calls
NormalizedDifference(a, b, mode) ==
    Clamp(ImgDivide(ImgSub(a, b), ImgAdd(a, b), mode), MinusOne, One)

\* the value of the band each function adds to the image
computeNDVI(px, satellite, mode) ==
    LET bands == getBandNames(satellite)
    IN  NormalizedDifference(Rescale(px, bands.nir), Rescale(px, bands.red), mode)

computeNDBI(px, satellite, mode) ==
    LET bands == getBandNamesNDBI(satellite)
    IN  NormalizedDifference(Rescale(px, bands.swir), Rescale(px, bands.nir), mode)

computeNDWI(px, satellite, mode) ==
    LET bands == getBandNamesNDWI(satellite)
    IN  NormalizedDifference(Rescale(px, bands.green), Rescale(px, bands.nir), mode)

----------------------------------------------------------------------------
(* calculateFVC: (NDVI - NDVI_soil) / (NDVI_veg - NDVI_soil), then the two where calls *)

\* a faulty variant of calculateFVC: the where calls keep the index range [-1, 1]
calculateFVCIndexRange(ndvi, ndvi_soil, ndvi_veg, mode) ==
    Clamp(ImgDivide(ImgSub(ndvi, ndvi_soil), ImgSub(ndvi_veg, ndvi_soil), mode), MinusOne, One)

calculateFVC(ndvi, ndvi_soil, ndvi_veg, mode) ==
    Clamp(ImgDivide(ImgSub(ndvi, ndvi_soil), ImgSub(ndvi_veg, ndvi_soil), mode), Zero, One)

----------------------------------------------------------------------------
(* The temporal composite: collection.select(band).mean() / .max() per pixel. *)
(* Both reducers skip the scenes in which the pixel is masked.                *)

RECURSIVE ReduceSum(_)
ReduceSum(stack) ==
    IF stack = <<>> THEN Zero
    ELSE IF IsNum(Head(stack)) THEN RatAdd(Head(stack), ReduceSum(Tail(stack)))
    ELSE ReduceSum(Tail(stack))

RECURSIVE ReduceCount(_)
ReduceCount(stack) ==
    IF stack = <<>> THEN 0
    ELSE (IF IsNum(Head(stack)) THEN 1 ELSE 0) + ReduceCount(Tail(stack))

RECURSIVE ReduceMax(_)
ReduceMax(stack) ==
    IF stack = <<>> THEN NoValue
    ELSE LET rest == ReduceMax(Tail(stack))
             h == Head(stack)
         IN  IF ~IsNum(h) THEN rest
             ELSE IF ~IsNum(rest) THEN h
             ELSE IF RatLt(h, rest) THEN rest ELSE h

\* a faulty variant of CompositeMean: a masked scene counts as a scene of value 0
CompositeMeanOverAll(stack) ==
    IF stack = <<>> THEN NoValue
    ELSE RatDiv(ReduceSum(stack), <<Len(stack), 1>>)

CompositeMean(stack) ==
    IF ReduceCount(stack) = 0 THEN NoValue
    ELSE RatDiv(ReduceSum(stack), <<ReduceCount(stack), 1>>)

\* a faulty variant of CompositeMax: the value of the last scene that has one
RECURSIVE CompositeLastValid(_)
CompositeLastValid(stack) ==
    IF stack = <<>> THEN NoValue
    ELSE IF IsNum(stack[Len(stack)]) THEN stack[Len(stack)]
    ELSE CompositeLastValid(SubSeq(stack, 1, Len(stack) - 1))

CompositeMax(stack) == ReduceMax(stack)

Composite(stat, stack) == IF stat = "max" THEN CompositeMax(stack) ELSE CompositeMean(stack)

----------------------------------------------------------------------------
(* Bounds of the input sets *)

MaxQA == 65535        \* QA_PIXEL values 0 .. MaxQA (16 bits)
DNStride == 4000      \* band DNs k * DNStride
MaxDNIndex == 15      \* k in 0 .. MaxDNIndex
GridDen == 10         \* NDVI values and thresholds k / GridDen
MaxStack == 4         \* scenes in a pixel stack

DNGrid == {k * DNStride : k \in 0..MaxDNIndex}
BandNames == {"SR_B2", "SR_B3", "SR_B4", "SR_B5", "SR_B7"}
Kinds == {"NDVI", "NDBI", "NDWI"}

\* the two bands each index function reads, first the one fed to A
BandsOf(kind, satellite) ==
    IF kind = "NDVI" THEN <<getBandNames(satellite).nir, getBandNames(satellite).red>>
    ELSE IF kind = "NDBI" THEN <<getBandNamesNDBI(satellite).swir, getBandNamesNDBI(satellite).nir>>
    ELSE <<getBandNamesNDWI(satellite).green, getBandNamesNDWI(satellite).nir>>

\* an unmasked pixel whose bands A and B of the index hold the DNs a and b
PixelOf(in) ==
    LET bands == BandsOf(in.kind, in.sat)
    IN  [n \in BandNames \cup {"mask", "QA_PIXEL"} |->
            IF n = "mask" THEN 1
            ELSE IF n = bands[1] THEN in.a
            ELSE IF n = bands[2] THEN in.b
            ELSE 0]

ComputeIndex(in) ==
    LET px == PixelOf(in)
    IN  IF in.kind = "NDVI" THEN computeNDVI(px, in.sat, in.mode)
        ELSE IF in.kind = "NDBI" THEN computeNDBI(px, in.sat, in.mode)
        ELSE computeNDWI(px, in.sat, in.mode)

NdviGrid == {Norm(k, GridDen) : k \in (-GridDen)..GridDen} \cup {<<43, 50>>}
ThresholdGrid == {Norm(k, GridDen) : k \in (-2)..GridDen} \cup {<<1, 5>>, <<43, 50>>}
StackValues == {NoValue, <<1, 10>>, <<3, 10>>, <<1, 2>>, <<-1, 5>>}
Stacks == UNION {[1..n -> StackValues] : n \in 0..MaxStack}

IdxInputs == [kind : Kinds, sat : Satellites, a : DNGrid, b : DNGrid, mode : DivZeroModes]
FvcInputs == [ndvi : NdviGrid \cup {NoValue}, soil : ThresholdGrid, veg : ThresholdGrid,
              mode : DivZeroModes]
AggInputs == [stat : {"mean", "max"}, stack : Stacks]

IdleMask == qa = 0 /\ maskOut = <<>>
IdleIdx == idxIn = [kind |-> "NDVI", sat |-> "L8", a |-> 0, b |-> 0, mode |-> "zero"]
           /\ idxOut = <<>>
IdleFvc == fvcIn = [ndvi |-> Zero, soil |-> <<1, 5>>, veg |-> <<43, 50>>, mode |-> "zero"]
           /\ fvcOut = <<>>
IdleAgg == aggIn = [stat |-> "mean", stack |-> <<>>] /\ aggOut = <<>>
IdleBands == satIn = [kind |-> "NDVI", id |-> "L8"] /\ bandsOut = <<>>
IdleThr == thrIn = [raster |-> <<>>, overBudget |-> FALSE] /\ thrOut = <<>>
IdleTime == timeIn = [time |-> [h |-> 0, m |-> 0, s |-> 0, frac |-> 0], date |-> 0]
            /\ timeOut = <<>>
IdleProbe == IdleBands /\ IdleThr /\ IdleTime
IdleMeta ==
    /\ cloud = [min |-> 0, max |-> 10000]
    /\ pathRowList = <<>> /\ tableData = <<>> /\ featureList = <<>> /\ tableExports = <<>>
IdleHarness == IdleMask /\ IdleIdx /\ IdleFvc /\ IdleAgg /\ IdleProbe
IdleDriver ==
    /\ IdleMeta
    /\ archive = <<>> /\ platform = "zero"
    /\ args = [satelliteId |-> "L8", ndviType |-> "max", autoThreshold |-> "false",
               ndvi_soil |-> <<1, 5>>, ndvi_veg |-> <<43, 50>>]
    /\ params = args
    /\ config = [enabled |-> {}, statType |-> "mean"]
    /\ pc = "idle" /\ idx = 0 /\ thrown = "none"
    /\ exports = <<>> /\ fvcCalls = <<>> /\ log = <<>>
    /\ pending = {} /\ reported = <<>>

----------------------------------------------------------------------------
(* The per-pixel functions applied to drawn inputs *)

ApplyMaskClouds ==
    /\ script = "maskClouds"
    /\ maskOut = <<>>
    /\ maskOut' = <<maskClouds([mask |-> 1, QA_PIXEL |-> qa])["mask"]>>
    /\ UNCHANGED <<driver, extra, qa, idxIn, idxOut, fvcIn, fvcOut, aggIn, aggOut>>

ApplyIndex ==
    /\ script = "index"
    /\ idxOut = <<>>
    /\ idxOut' = <<ComputeIndex(idxIn)>>
    /\ UNCHANGED <<driver, extra, qa, maskOut, idxIn, fvcIn, fvcOut, aggIn, aggOut>>

ApplyFVC ==
    /\ script = "calculateFVC"
    /\ fvcOut = <<>>
    /\ fvcOut' = <<calculateFVC(fvcIn.ndvi, fvcIn.soil, fvcIn.veg, fvcIn.mode)>>
    /\ UNCHANGED <<driver, extra, qa, maskOut, idxIn, idxOut, fvcIn, aggIn, aggOut>>

ApplyComposite ==
    /\ script = "composite"
    /\ aggOut = <<>>
    /\ aggOut' = <<Composite(aggIn.stat, aggIn.stack)>>
    /\ UNCHANGED <<driver, extra, qa, maskOut, idxIn, idxOut, fvcIn, fvcOut, aggIn>>

InitMask ==
    /\ script = "maskClouds"
    /\ qa \in 0..MaxQA /\ maskOut = <<>> /\ IdleIdx /\ IdleFvc /\ IdleAgg /\ IdleProbe
    /\ IdleDriver
InitIndex ==
    /\ script = "index"
    /\ idxIn \in IdxInputs /\ idxOut = <<>> /\ IdleMask /\ IdleFvc /\ IdleAgg /\ IdleProbe
    /\ IdleDriver
InitCover ==
    /\ script = "calculateFVC"
    /\ fvcIn \in FvcInputs /\ fvcOut = <<>> /\ IdleMask /\ IdleIdx /\ IdleAgg /\ IdleProbe
    /\ IdleDriver
InitAgg ==
    /\ script = "composite"
    /\ aggIn \in AggInputs /\ aggOut = <<>> /\ IdleMask /\ IdleIdx /\ IdleFvc /\ IdleProbe
    /\ IdleDriver

\* the identifiers a caller can pass for the satellite
SatelliteIds ==
    Satellites \cup {"L1", "L2", "L3", "L6", "L10", "LX", "l8", "l9", "S2", "LANDSAT_8",
                     "", "undefined"}

\* the call of the band resolver of one of the three index scripts: none of them has
\* a throw statement, each returns one of its two mappings
ResolveBands(kind, id) ==
    [error |-> "none",
     bands |-> IF kind = "NDVI" THEN getBandNames(id)
               ELSE IF kind = "NDBI" THEN getBandNamesNDBI(id)
               ELSE getBandNamesNDWI(id)]

ApplyGetBandNames ==
    /\ script = "getBandNames"
    /\ bandsOut = <<>>
    /\ bandsOut' = <<ResolveBands(satIn.kind, satIn.id)>>
    /\ UNCHANGED <<harness, driver, meta, satIn, thrIn, thrOut, timeIn, timeOut>>

InitBands ==
    /\ script = "getBandNames"
    /\ satIn \in [kind : Kinds, id : SatelliteIds] /\ bandsOut = <<>>
    /\ IdleMask /\ IdleIdx /\ IdleFvc /\ IdleAgg /\ IdleThr /\ IdleTime /\ IdleDriver

SpecBands == InitBands /\ [][ApplyGetBandNames]_vars

SpecMask == InitMask /\ [][ApplyMaskClouds]_vars
SpecIndex == InitIndex /\ [][ApplyIndex]_vars
SpecCover == InitCover /\ [][ApplyFVC]_vars
SpecAgg == InitAgg /\ [][ApplyComposite]_vars

----------------------------------------------------------------------------
(* Properties of the per-pixel functions *)

\* numerator and denominator of the raw quotient (A - B) / (A + B) over the common
\* denominator 400000 of the rescaled bands A = (11 a - 80000) / 400000
RawNum == 11 * (idxIn.a - idxIn.b)
RawDen == 11 * (idxIn.a + idxIn.b) - 160000
RawBelow == (RawDen > 0 /\ RawNum < -RawDen) \/ (RawDen < 0 /\ RawNum > -RawDen)
RawAbove == (RawDen > 0 /\ RawNum > RawDen) \/ (RawDen < 0 /\ RawNum < RawDen)

\* C1: for band values with A + B # 0 the index value lies in [-1, 1]; a raw quotient
\* below -1 becomes -1, one above 1 becomes 1, one inside [-1, 1] is returned unchanged
C1_IndexClampedAfter ==
    (idxOut # <<>> /\ RawDen # 0) =>
        LET v == idxOut[1]
        IN  /\ IsNum(v)
            /\ RatLe(MinusOne, v) /\ RatLe(v, One)
            /\ RawBelow => v = MinusOne
            /\ RawAbove => v = One
            /\ (~RawBelow /\ ~RawAbove) => v = Norm(RawNum, RawDen)

C1_Witness == idxOut = <<One>> /\ RawAbove /\ RawDen # 0

\* the case C13 is about: the two rescaled band values sum to zero.  With whole-number
\* DNs a and b, 11 (a + b) = 160000 has no solution, so no band values of a scene reach it
ZeroSumCase == idxOut # <<>> /\ RawDen = 0

Bit(q, k) == (q \div Shl(1, k)) % 2
FlipBit(q, k) == IF Bit(q, k) = 1 THEN q - Shl(1, k) ELSE q + Shl(1, k)

\* C2: maskClouds marks the pixel invalid iff bit 3 or bit 4 of QA_PIXEL is set, and
\* no other bit of the 16 changes the result
C2_InvalidIffCloudBits ==
    maskOut # <<>> =>
        /\ (maskOut[1] = 0) <=> (Bit(qa, 3) = 1 \/ Bit(qa, 4) = 1)
        /\ \A k \in (0..15) \ {3, 4} :
               maskClouds([mask |-> 1, QA_PIXEL |-> FlipBit(qa, k)])["mask"] = maskOut[1]

C2_Witness == maskOut = <<0>> /\ qa = 24

\* C3: for ndvi_soil # ndvi_veg and a valid NDVI, FVC lies in [0, 1], is 0 at
\* NDVI = ndvi_soil and 1 at NDVI = ndvi_veg, and is 0 or 1 for an NDVI outside the
\* interval between the two thresholds (0 below ndvi_soil and 1 above ndvi_veg when
\* ndvi_soil < ndvi_veg)
C3_FvcEndpointsAndClamp ==
    (fvcOut # <<>> /\ IsNum(fvcIn.ndvi) /\ fvcIn.soil # fvcIn.veg) =>
        LET v == fvcOut[1]
            x == fvcIn.ndvi
            lo == IF RatLt(fvcIn.soil, fvcIn.veg) THEN fvcIn.soil ELSE fvcIn.veg
            hi == IF RatLt(fvcIn.soil, fvcIn.veg) THEN fvcIn.veg ELSE fvcIn.soil
        IN  /\ IsNum(v)
            /\ RatLe(Zero, v) /\ RatLe(v, One)
            /\ x = fvcIn.soil => v = Zero
            /\ x = fvcIn.veg => v = One
            /\ (RatLt(x, lo) \/ RatGt(x, hi)) => v \in {Zero, One}
            /\ RatLt(fvcIn.soil, fvcIn.veg) =>
                   /\ RatLt(x, fvcIn.soil) => v = Zero
                   /\ RatGt(x, fvcIn.veg) => v = One

C3_Witness ==
    /\ fvcOut = <<One>>
    /\ fvcIn.soil = <<1, 5>> /\ fvcIn.veg = <<43, 50>> /\ fvcIn.ndvi = <<9, 10>>

ValidAt(stack) == {i \in DOMAIN stack : IsNum(stack[i])}

RECURSIVE DenProduct(_, _)
DenProduct(stack, i) ==
    IF i = 0 THEN 1
    ELSE (IF IsNum(stack[i]) THEN stack[i][2] ELSE 1) * DenProduct(stack, i - 1)

RECURSIVE NumSum(_, _, _)
NumSum(stack, i, den) ==
    IF i = 0 THEN 0
    ELSE (IF IsNum(stack[i]) THEN stack[i][1] * (den \div stack[i][2]) ELSE 0)
         + NumSum(stack, i - 1, den)

\* C5: the composite of a pixel stack is the mean, or the maximum, of its valid
\* entries only, and has no value when no entry is valid
C5_CompositeOverValidOnly ==
    aggOut # <<>> =>
        LET v == aggOut[1]
            st == aggIn.stack
            n == Cardinality(ValidAt(st))
            den == DenProduct(st, Len(st))
        IN  IF n = 0 THEN v = NoValue
            ELSE IF aggIn.stat = "max"
            THEN /\ \E i \in ValidAt(st) : st[i] = v
                 /\ \A i \in ValidAt(st) : RatLe(st[i], v)
            ELSE v = Norm(NumSum(st, Len(st), den), den * n)

\* the stack [0.1, 0.5, no value, 0.3] has mean 0.3
C5_Witness ==
    /\ aggIn = [stat |-> "mean", stack |-> <<<<1, 10>>, <<1, 2>>, NoValue, <<3, 10>>>>]
    /\ aggOut = <<<<3, 10>>>>

\* the same stack has maximum 0.5, and a stack without a valid entry has no value
C5_WitnessMax ==
    /\ aggIn = [stat |-> "max", stack |-> <<<<1, 10>>, <<1, 2>>, NoValue, <<3, 10>>>>]
    /\ aggOut = <<<<1, 2>>>>

\* the two band-role mappings of an index family
ModernBands(kind) ==
    IF kind = "NDVI" THEN [nir |-> "SR_B5", red |-> "SR_B4"]
    ELSE IF kind = "NDBI" THEN [swir |-> "SR_B7", nir |-> "SR_B5"]
    ELSE [nir |-> "SR_B5", green |-> "SR_B3"]

LegacyBands(kind) ==
    IF kind = "NDVI" THEN [nir |-> "SR_B4", red |-> "SR_B3"]
    ELSE IF kind = "NDBI" THEN [swir |-> "SR_B7", nir |-> "SR_B4"]
    ELSE [nir |-> "SR_B4", green |-> "SR_B2"]

\* C11: the band resolver returns the modern mapping for L8 and L9, the legacy mapping
\* for L4, L5 and L7, and raises UnknownSatellite for every other identifier instead of
\* returning a mapping
C11_ResolverRejectsUnknown ==
    bandsOut # <<>> =>
        LET r == bandsOut[1]
        IN  /\ satIn.id \in {"L8", "L9"} =>
                (r.error = "none" /\ r.bands = ModernBands(satIn.kind))
            /\ satIn.id \in {"L4", "L5", "L7"} =>
                (r.error = "none" /\ r.bands = LegacyBands(satIn.kind))
            /\ satIn.id \notin Satellites => r.error = "UnknownSatellite"

----------------------------------------------------------------------------
(* The scenes of the catalogue.  A scene has two pixels: pixel 1 lies inside *)
(* the AOI polygon, pixel 2 inside its bounding box only.                    *)

PxVeg == [mask |-> 1, QA_PIXEL |-> 21824, SR_B2 |-> 8000, SR_B3 |-> 8000,
          SR_B4 |-> 16000, SR_B5 |-> 32000, SR_B7 |-> 16000]
PxSoil == [mask |-> 1, QA_PIXEL |-> 21824, SR_B2 |-> 8000, SR_B3 |-> 16000,
           SR_B4 |-> 16000, SR_B5 |-> 24000, SR_B7 |-> 24000]
PxWater == [mask |-> 1, QA_PIXEL |-> 21952, SR_B2 |-> 16000, SR_B3 |-> 16000,
            SR_B4 |-> 16000, SR_B5 |-> 8000, SR_B7 |-> 8000]
PxDark == [mask |-> 1, QA_PIXEL |-> 21824, SR_B2 |-> 8000, SR_B3 |-> 8000,
           SR_B4 |-> 0, SR_B5 |-> 16000, SR_B7 |-> 8000]
PxCloud == [mask |-> 1, QA_PIXEL |-> 22280, SR_B2 |-> 40000, SR_B3 |-> 40000,
            SR_B4 |-> 40000, SR_B5 |-> 48000, SR_B7 |-> 32000]
PxShadow == [mask |-> 1, QA_PIXEL |-> 23888, SR_B2 |-> 8000, SR_B3 |-> 8000,
             SR_B4 |-> 8000, SR_B5 |-> 16000, SR_B7 |-> 8000]

\* date is the day of the acquisition, counted from the first day of the period the
\* scene is filed under; cloud is CLOUD_COVER in hundredths of a percent; time is
\* SCENE_CENTER_TIME as hours, minutes, seconds and ten-millionths of a second
SceneA == [id |-> "A", sat |-> "L8", px |-> <<PxVeg, PxSoil>>, date |-> 0, aoi |-> TRUE,
           cloud |-> 1234, path |-> 1, row |-> 23,
           time |-> [h |-> 2, m |-> 45, s |-> 30, frac |-> 1234560]]
SceneB == [id |-> "B", sat |-> "L8", px |-> <<PxCloud, PxWater>>, date |-> 4, aoi |-> TRUE,
           cloud |-> 5000, path |-> 12, row |-> 3,
           time |-> [h |-> 16, m |-> 5, s |-> 9, frac |-> 9999990]]
SceneC == [id |-> "C", sat |-> "L8", px |-> <<PxShadow, PxCloud>>, date |-> 9, aoi |-> TRUE,
           cloud |-> 10000, path |-> 1, row |-> 23,
           time |-> [h |-> 23, m |-> 59, s |-> 59, frac |-> 0]]
SceneD == [id |-> "D", sat |-> "L5", px |-> <<PxVeg, PxDark>>, date |-> 5, aoi |-> TRUE,
           cloud |-> 0, path |-> 12, row |-> 3,
           time |-> [h |-> 15, m |-> 59, s |-> 7, frac |-> 5000000]]
SceneE == [id |-> "E", sat |-> "L8", px |-> <<PxDark, PxVeg>>, date |-> 2, aoi |-> TRUE,
           cloud |-> 2050, path |-> 1, row |-> 23,
           time |-> [h |-> 0, m |-> 0, s |-> 0, frac |-> 0]]
\* acquired on the end day of the period
SceneF == [id |-> "F", sat |-> "L8", px |-> <<PxSoil, PxSoil>>, date |-> 10, aoi |-> TRUE,
           cloud |-> 300, path |-> 1, row |-> 24,
           time |-> [h |-> 3, m |-> 0, s |-> 0, frac |-> 0]]
\* does not intersect the AOI
SceneG == [id |-> "G", sat |-> "L8", px |-> <<PxWater, PxWater>>, date |-> 3, aoi |-> FALSE,
           cloud |-> 700, path |-> 2, row |-> 23,
           time |-> [h |-> 3, m |-> 0, s |-> 0, frac |-> 0]]

Pixels == {1, 2}
BoundsPixels == {1, 2}      \* geometry.bounds()
PolygonPixels == {1}        \* geometry

MaxPeriods == 2             \* periods in timePeriods

\* timePeriods: period p runs from its start day up to, not including, its end day
TimePeriod(p) == [start |-> 20 * p + 10, end |-> 20 * p + 20]

PeriodArchives ==
    {<<>>, <<SceneA, SceneB>>, <<SceneC, SceneD>>, <<SceneB, SceneE, SceneA>>,
     <<SceneF, SceneA, SceneG>>}

\* the scenes filed under period p, with their days counted from day 0
Dated(coll, p) == [j \in DOMAIN coll |-> [coll[j] EXCEPT !.date = @ + TimePeriod(p).start]]

Archives ==
    UNION {{[p \in 1..n |-> Dated(a[p], p)] : a \in [1..n -> PeriodArchives]} :
           n \in 1..MaxPeriods}

----------------------------------------------------------------------------
(* JavaScript values *)

\* v || d for a string-valued property: undefined and '' are falsy
OrDefaultStr(v, d) == IF v \in {"undefined", ""} THEN d ELSE v

\* v || d for a boolean-valued property
OrDefaultBool(v, d) == IF v \in {"undefined", "false"} THEN d ELSE v

\* v || d for a number-valued property: undefined, NaN and 0 are falsy
OrDefaultNum(v, d) == IF ~IsNum(v) \/ v = Zero THEN d ELSE v

\* !SATELLITES[id] is false exactly for the keys of SATELLITES
Supported(id) == id \in Satellites

----------------------------------------------------------------------------
(* Collections and rasters *)

\* ee.ImageCollection(SATELLITES[sat].name).filterDate(start, end).filterBounds(geometry)
SatCollection(period, sat) ==
    SelectSeq(archive[period],
              LAMBDA s : /\ s.sat = sat
                         /\ s.date >= TimePeriod(period).start
                         /\ s.date < TimePeriod(period).end
                         /\ s.aoi)

\* a faulty variant of MapMaskClouds: a scene left without a valid pixel is dropped
MapMaskCloudsDropEmpty(coll) ==
    SelectSeq([j \in DOMAIN coll |->
                  [coll[j] EXCEPT !.px = [k \in DOMAIN coll[j].px |-> maskClouds(coll[j].px[k])]]],
              LAMBDA s : \E k \in DOMAIN s.px : s.px[k]["mask"] = 1)

\* collection.map(maskClouds)
MapMaskClouds(coll) ==
    [j \in DOMAIN coll |->
        [coll[j] EXCEPT !.px = [k \in DOMAIN coll[j].px |-> maskClouds(coll[j].px[k])]]]

\* collection.map(function(image) { return computeNDVI(image, satelliteId); })
MapComputeNDVI(coll, sat) ==
    [j \in DOMAIN coll |->
        [coll[j] EXCEPT !.px = [k \in DOMAIN coll[j].px |->
            coll[j].px[k] @@ ("NDVI" :> computeNDVI(coll[j].px[k], sat, platform))]]]

\* collection.select('NDVI'), the stack of one pixel
PixelStack(coll, k) == [j \in DOMAIN coll |-> coll[j].px[k]["NDVI"]]

\* collection.select('NDVI').max() or .mean()
CompositeImage(coll, stat) == [k \in Pixels |-> Composite(stat, PixelStack(coll, k))]

\* ascending list of the numbers among the values of raster over the pixels in S
RECURSIVE SortedValues(_, _)
SortedValues(raster, S) ==
    LET valid == {k \in S : IsNum(raster[k])}
    IN  IF valid = {} THEN <<>>
        ELSE LET m == CHOOSE k \in valid : \A o \in valid : RatLe(raster[k], raster[o])
             IN  <<raster[m]>> \o SortedValues(raster, S \ {m})

\* ee.Reducer.percentile([q]) over the values: the value of rank ceil(q n / 100);
\* null (Undefined) when there is no valid pixel
Percentile(values, q) ==
    IF values = <<>> THEN Undefined
    ELSE LET r == (q * Len(values) + 99) \div 100
         IN  values[IF r < 1 THEN 1 ELSE r]

\* the raster reduceRegion reads with bestEffort: true.  When the bounding box holds more
\* than maxPixels pixels at scale 30, the reduction runs at a coarser scale, whose pixel is
\* the mean of the valid pixels it covers
BestEffortRaster(ndviImage, overBudget) ==
    IF overBudget
    THEN [k \in {1} |-> CompositeMean([i \in 1..Cardinality(BoundsPixels) |-> ndviImage[i]])]
    ELSE [k \in BoundsPixels |-> ndviImage[k]]

\* calculateNDVIThresholds for a bounding box within (overBudget FALSE) or beyond the
\* pixel budget: the object returned has the two keys ndvi_soil and ndvi_veg
calculateNDVIThresholdsOver(ndviImage, overBudget) ==
    LET raster == BestEffortRaster(ndviImage, overBudget)
        values == SortedValues(raster, DOMAIN raster)
    IN  [ndvi_soil |-> Percentile(values, 5), ndvi_veg |-> Percentile(values, 95)]

\* calculateNDVIThresholds: reduceRegion of percentile([5, 95]) over geometry.bounds();
\* the bounding box of the drivers' AOI is well within the pixel budget
calculateNDVIThresholds(ndviImage) ==
    LET values == SortedValues(ndviImage, BoundsPixels)
    IN  [ndvi_soil |-> Percentile(values, 5), ndvi_veg |-> Percentile(values, 95)]

ThrInputs == [raster : [Pixels -> StackValues \cup {<<9, 10>>}], overBudget : BOOLEAN]

ApplyThresholds ==
    /\ script = "calculateNDVIThresholds"
    /\ thrOut = <<>>
    /\ thrOut' = <<calculateNDVIThresholdsOver(thrIn.raster, thrIn.overBudget)>>
    /\ UNCHANGED <<harness, driver, meta, satIn, bandsOut, thrIn, timeIn, timeOut>>

InitThresholds ==
    /\ script = "calculateNDVIThresholds"
    /\ thrIn \in ThrInputs /\ thrOut = <<>>
    /\ IdleMask /\ IdleIdx /\ IdleFvc /\ IdleAgg /\ IdleBands /\ IdleTime /\ IdleDriver

SpecThresholds == InitThresholds /\ [][ApplyThresholds]_vars


\* calculateFVC applied to a raster
FvcImage(ndviImage, ndvi_soil, ndvi_veg) ==
    [k \in Pixels |-> calculateFVC(ndviImage[k], ndvi_soil, ndvi_veg, platform)]

----------------------------------------------------------------------------
(* exports.calculateFVC *)

ThresholdArgs == {Undefined, Zero, <<1, 5>>, <<43, 50>>}

FvcArgs == [satelliteId : {"L5", "L8", "LX"},
            ndviType : {"undefined", "max", "mean", "median"},
            autoThreshold : {"undefined", "true", "false"},
            ndvi_soil : ThresholdArgs,
            ndvi_veg : ThresholdArgs]

DefaultSoil == <<1, 5>>     \* 0.2
DefaultVeg == <<43, 50>>    \* 0.86

Logged(events) == log' = log \o events

\* the parameter validation, the defaults and the area name
FvcValidate ==
    /\ script = "fvc"
    /\ pc = "start"
    /\ LET typed == [params EXCEPT !.ndviType = OrDefaultStr(params.ndviType, "max")]
       IN  IF ~Supported(params.satelliteId)
           THEN /\ thrown' = "UnknownSatellite"
                /\ pc' = "thrown"
                /\ UNCHANGED <<params, idx, log>>
           ELSE IF typed.ndviType # "max" /\ typed.ndviType # "mean"
           THEN /\ params' = typed
                /\ thrown' = "UnsupportedStatistic"
                /\ pc' = "thrown"
                /\ UNCHANGED <<idx, log>>
           ELSE /\ params' = [typed EXCEPT
                                 !.autoThreshold = OrDefaultBool(typed.autoThreshold, "false"),
                                 !.ndvi_soil = OrDefaultNum(typed.ndvi_soil, DefaultSoil),
                                 !.ndvi_veg = OrDefaultNum(typed.ndvi_veg, DefaultVeg)]
                /\ Logged(<<<<"getInfo", 0>>, <<"print area", 0>>>>)
                /\ pc' = "loop"
                /\ idx' = 1
                /\ UNCHANGED thrown
    /\ UNCHANGED <<harness, extra, world, exports, fvcCalls, pending, reported>>

\* the names the period callback can read: its own variables and those of the
\* enclosing function and script
CallbackScope ==
    {"period", "collection", "ndviImage", "ndvi_soil", "ndvi_veg", "thresholds", "fvc",
     "exportDescription", "params", "areaName", "SATELLITES", "getBandNames", "maskClouds",
     "computeNDVI", "calculateNDVIThresholds", "calculateFVC", "aoi", "timePeriods", "table"}

\* step 3 of the callback: the threshold pair, or the error reading it raises
PeriodThresholds(ndviImage) ==
    IF params.autoThreshold = "true"
    THEN IF "ndviMax" \notin CallbackScope
         THEN [error |-> "ReferenceError", soil |-> Undefined, veg |-> Undefined,
               warned |-> FALSE]
         ELSE LET images == [ndviImage |-> ndviImage]
                  thresholds == calculateNDVIThresholds(images["ndviMax"])
                  \* the percentiles are server-side objects, which are never falsy
                  failed == FALSE
              IN  IF failed
                  THEN [error |-> "none", soil |-> params.ndvi_soil,
                        veg |-> params.ndvi_veg, warned |-> TRUE]
                  ELSE [error |-> "none", soil |-> thresholds.ndvi_soil,
                        veg |-> thresholds.ndvi_veg, warned |-> FALSE]
    ELSE [error |-> "none", soil |-> params.ndvi_soil, veg |-> params.ndvi_veg,
          warned |-> FALSE]

\* a faulty variant of FvcCollection: the index is computed on the scenes as filtered,
\* the cloud mask is never applied
FvcCollectionUnmasked(period) ==
    MapComputeNDVI(SatCollection(period, params.satelliteId), params.satelliteId)

\* steps 1 and 2 of the callback: the masked collection with its NDVI band, and the composite
FvcCollection(period) ==
    MapComputeNDVI(MapMaskClouds(SatCollection(period, params.satelliteId)),
                   params.satelliteId)

\* one call of the forEach callback
FvcPeriod ==
    /\ script = "fvc"
    /\ pc = "loop"
    /\ idx \in DOMAIN archive
    /\ LET collection == FvcCollection(idx)
           ndviImage == CompositeImage(collection, params.ndviType)
           th == PeriodThresholds(ndviImage)
           head == <<<<"print period", idx>>, <<"collection", idx>>, <<"mask", idx>>,
                     <<"index", idx>>, <<"print count", idx>>, <<"getInfo", idx>>>>
           stat == <<<<"composite", idx>>, <<"print composite", idx>>>>
       IN  IF Len(collection) = 0
           THEN /\ Logged(head \o <<<<"warn empty", idx>>>>)
                /\ idx' = idx + 1
                /\ UNCHANGED <<pc, thrown, exports, fvcCalls>>
           ELSE IF th.error # "none"
           THEN /\ Logged(head \o stat)
                /\ thrown' = th.error
                /\ pc' = "thrown"
                /\ UNCHANGED <<idx, exports, fvcCalls>>
           ELSE /\ Logged(head \o stat
                          \o (IF th.warned THEN <<<<"warn thresholds", idx>>>> ELSE <<>>)
                          \o <<<<"fvc", idx>>, <<"export", idx>>, <<"map", idx>>>>)
                /\ fvcCalls' = Append(fvcCalls,
                                      [period |-> idx, soil |-> th.soil, veg |-> th.veg])
                /\ exports' = Append(exports,
                                     [period |-> idx, product |-> "FVC",
                                      scenes |-> Len(collection),
                                      input |-> SatCollection(idx, params.satelliteId),
                                      collection |-> collection,
                                      image |-> FvcImage(ndviImage, th.soil, th.veg)])
                /\ idx' = idx + 1
                /\ UNCHANGED <<pc, thrown>>
    /\ UNCHANGED <<harness, extra, world, params, pending, reported>>

\* forEach returns after the last period
FvcReturn ==
    /\ script = "fvc"
    /\ pc = "loop"
    /\ idx = Len(archive) + 1
    /\ pc' = "done"
    /\ UNCHANGED <<harness, extra, world, params, idx, thrown, exports, fvcCalls, log, pending,
                   reported>>

InitFVC ==
    /\ IdleHarness /\ IdleMeta
    /\ archive \in Archives
    /\ platform \in DivZeroModes
    /\ args \in FvcArgs
    /\ params = args
    /\ config = [enabled |-> {}, statType |-> "mean"]
    /\ script = "fvc"
    /\ pc = "start" /\ idx = 0 /\ thrown = "none"
    /\ exports = <<>> /\ fvcCalls = <<>> /\ log = <<>>
    /\ pending = {} /\ reported = <<>>

NextFVC == FvcValidate \/ FvcPeriod \/ FvcReturn

SpecFVC == InitFVC /\ [][NextFVC]_vars

----------------------------------------------------------------------------
(* The batch NDVI script *)

SpacecraftId(sat) ==
    [L4 |-> "LANDSAT_4", L5 |-> "LANDSAT_5", L7 |-> "LANDSAT_7", L8 |-> "LANDSAT_8",
     L9 |-> "LANDSAT_9"][sat]

\* spacecraftId.match('LANDSAT_[89]').length().gt(0)
IsNewSatellite(spacecraftId) == spacecraftId \in {"LANDSAT_8", "LANDSAT_9"}

\* computeNDVI of the batch script: the bands follow the image's SPACECRAFT_ID
computeNDVIBatch(px, spacecraftId, mode) ==
    LET nir == IF IsNewSatellite(spacecraftId) THEN "SR_B5" ELSE "SR_B4"
        red == IF IsNewSatellite(spacecraftId) THEN "SR_B4" ELSE "SR_B3"
    IN  NormalizedDifference(Rescale(px, nir), Rescale(px, red), mode)

\* Object.keys(satelliteConfig), in the order the script writes them
ConfigKeys == <<"L9", "L8", "L7", "L5", "L4">>

\* the merge, over the enabled satellites in key order, of their filtered collections
RECURSIVE MergedFrom(_, _)
MergedFrom(period, i) ==
    IF i > Len(ConfigKeys) THEN <<>>
    ELSE (IF ConfigKeys[i] \in config.enabled THEN SatCollection(period, ConfigKeys[i])
          ELSE <<>>) \o MergedFrom(period, i + 1)

MergedCollection(period) == MergedFrom(period, 1)

\* mergedCollection.map(maskClouds).map(computeNDVI)
BatchProcessed(period) ==
    LET masked == MapMaskClouds(MergedCollection(period))
    IN  [j \in DOMAIN masked |->
            [masked[j] EXCEPT !.px = [k \in DOMAIN masked[j].px |->
                masked[j].px[k] @@
                    ("NDVI" :> computeNDVIBatch(masked[j].px[k],
                                                SpacecraftId(masked[j].sat), platform))]]]

\* the reducers of an image collection the script can name with statType
CollectionMethods == {"mean", "max"}

BatchConfigs == [enabled : SUBSET {"L5", "L8", "L9"}, statType : {"mean", "max", "foo"}]

\* the banner and the map set-up before the loop
BatchStart ==
    /\ script = "ndvi batch"
    /\ pc = "start"
    /\ Logged(<<<<"print begin", 0>>>>)
    /\ pc' = "loop"
    /\ idx' = 1
    /\ UNCHANGED <<harness, extra, world, params, thrown, exports, fvcCalls, pending, reported>>

\* one call of the forEach callback: processNDVI, then result.evaluate(callback)
BatchPeriod ==
    /\ script = "ndvi batch"
    /\ pc = "loop"
    /\ idx \in DOMAIN archive
    /\ LET processed == BatchProcessed(idx)
           head == <<<<"collection", idx>>, <<"mask", idx>>, <<"index", idx>>>>
       IN  IF config.statType \notin CollectionMethods
           THEN /\ Logged(head)
                /\ thrown' = "TypeError"
                /\ pc' = "thrown"
                /\ UNCHANGED <<idx, exports, pending>>
           ELSE /\ Logged(head \o <<<<"composite", idx>>, <<"getInfo", idx>>,
                                    <<"export", idx>>, <<"map", idx>>,
                                    <<"evaluate", idx>>>>)
                /\ exports' = Append(exports,
                                     [period |-> idx, product |-> "NDVI",
                                      scenes |-> Len(processed),
                                      input |-> MergedCollection(idx),
                                      collection |-> processed,
                                      image |-> CompositeImage(processed, config.statType)])
                /\ pending' = pending \cup {idx}
                /\ idx' = idx + 1
                /\ UNCHANGED <<pc, thrown>>
    /\ UNCHANGED <<harness, extra, world, params, fvcCalls, reported>>

\* the banner after the loop; the script has then run to its end
BatchBanner ==
    /\ script = "ndvi batch"
    /\ pc = "loop"
    /\ idx = Len(archive) + 1
    /\ Logged(<<<<"print complete", 0>>>>)
    /\ pc' = "done"
    /\ UNCHANGED <<harness, extra, world, params, idx, thrown, exports, fvcCalls, pending, reported>>

\* a faulty variant of BatchCallback: the callback runs as soon as it is registered,
\* with the loop still under way
BatchCallbackDuringLoop(p) ==
    /\ script = "ndvi batch"
    /\ pc \in {"loop", "done"}
    /\ p \in pending
    /\ pending' = pending \ {p}
    /\ reported' = Append(reported, p)
    /\ Logged(<<<<"print result", p>>>>)
    /\ UNCHANGED <<harness, extra, world, params, pc, idx, thrown, exports, fvcCalls>>

\* an evaluate callback runs, once the script has run to its end
BatchCallback(p) ==
    /\ script = "ndvi batch"
    /\ pc = "done"
    /\ p \in pending
    /\ pending' = pending \ {p}
    /\ reported' = Append(reported, p)
    /\ Logged(<<<<"print result", p>>>>)
    /\ UNCHANGED <<harness, extra, world, params, pc, idx, thrown, exports, fvcCalls>>

InitBatch ==
    /\ IdleHarness /\ IdleMeta
    /\ archive \in Archives
    /\ platform \in DivZeroModes
    /\ args = [satelliteId |-> "L8", ndviType |-> "max", autoThreshold |-> "false",
               ndvi_soil |-> <<1, 5>>, ndvi_veg |-> <<43, 50>>]
    /\ params = args
    /\ config \in BatchConfigs
    /\ script = "ndvi batch"
    /\ pc = "start" /\ idx = 0 /\ thrown = "none"
    /\ exports = <<>> /\ fvcCalls = <<>> /\ log = <<>>
    /\ pending = {} /\ reported = <<>>

NextBatch ==
    BatchStart \/ BatchPeriod \/ BatchBanner \/ \E p \in DOMAIN archive : BatchCallback(p)

SpecBatch == InitBatch /\ [][NextBatch]_vars

----------------------------------------------------------------------------
(* exports.calculateNDVIStats of the NDVI analysis script *)

DigitChars == <<"0", "1", "2", "3", "4", "5", "6", "7", "8", "9">>

\* the decimal digits of a natural number, as a sequence of characters
RECURSIVE Str(_)
Str(n) ==
    IF n < 10 THEN <<DigitChars[n + 1]>>
    ELSE Append(Str(n \div 10), DigitChars[(n % 10) + 1])

\* distinct: the first of the elements with each value, in the order of the list
RECURSIVE Distinct(_)
Distinct(keys) ==
    IF keys = <<>> THEN <<>>
    ELSE LET front == Distinct(SubSeq(keys, 1, Len(keys) - 1))
             last == keys[Len(keys)]
         IN  IF last \in Range(front) THEN front ELSE Append(front, last)

\* a faulty variant of extractPathRows: the key is path and row written without the '_'
extractPathRowsNoSeparator(collection) ==
    Distinct([j \in DOMAIN collection |-> Str(collection[j].path) \o Str(collection[j].row)])

\* extractPathRows: one feature per image with pathRow = path + '_' + row, then
\* distinct(['pathRow']).aggregate_array('pathRow')
extractPathRows(collection) ==
    Distinct([j \in DOMAIN collection |->
                 Str(collection[j].path) \o <<"_">> \o Str(collection[j].row)])

StatsArgs == [satelliteId : {"L5", "L8", "LX"}, statType : {"undefined", "mean", "max", "median"}]

\* one call of exports.calculateNDVIStats
StatsRun ==
    /\ script = "ndvi stats"
    /\ pc = "start"
    /\ LET collection == SatCollection(1, params.satelliteId)
           pathRows == extractPathRows(collection)
           processedCollection == MapComputeNDVI(MapMaskClouds(collection), params.satelliteId)
           statNDVI == CompositeImage(processedCollection, params.statType)
       IN  IF ~Supported(params.satelliteId)
           THEN /\ thrown' = "UnknownSatellite"
                /\ pc' = "thrown"
                /\ UNCHANGED <<log, exports, pathRowList>>
           ELSE IF params.statType \notin {"mean", "max"}
           THEN /\ thrown' = "UnsupportedStatistic"
                /\ pc' = "thrown"
                /\ UNCHANGED <<log, exports, pathRowList>>
           ELSE /\ Logged(<<<<"collection", 1>>, <<"path rows", 1>>, <<"mask", 1>>,
                            <<"index", 1>>, <<"getInfo", 1>>, <<"print count", 1>>,
                            <<"composite", 1>>, <<"reduceRegion", 1>>, <<"getInfo", 1>>,
                            <<"print area", 1>>, <<"export", 1>>, <<"map", 1>>>>)
                /\ pathRowList' = pathRows
                /\ exports' = Append(exports,
                                     [period |-> 1, product |-> "NDVI",
                                      scenes |-> Len(processedCollection),
                                      input |-> collection,
                                      collection |-> processedCollection,
                                      image |-> statNDVI])
                /\ pc' = "done"
                /\ UNCHANGED thrown
    /\ UNCHANGED <<harness, probe, world, params, idx, fvcCalls, pending, reported,
                   cloud, tableData, featureList, tableExports>>

InitStats ==
    /\ IdleHarness /\ IdleMeta
    /\ archive \in {<<Dated(a, 1)>> : a \in PeriodArchives}
    /\ platform \in DivZeroModes
    /\ args \in StatsArgs
    /\ params = args
    /\ config = [enabled |-> {}, statType |-> "mean"]
    /\ script = "ndvi stats"
    /\ pc = "start" /\ idx = 0 /\ thrown = "none"
    /\ exports = <<>> /\ fvcCalls = <<>> /\ log = <<>>
    /\ pending = {} /\ reported = <<>>

SpecStats == InitStats /\ [][StatsRun]_vars

----------------------------------------------------------------------------
(* The metadata script *)

\* padZero: num < 10 ? '0' + num : '' + num
padZero(num) == IF num < 10 THEN <<"0">> \o Str(num) ELSE Str(num)

\* the pieces of a string between the occurrences of a separator character
RECURSIVE Split(_, _)
Split(str, sep) ==
    IF \A i \in DOMAIN str : str[i] # sep THEN <<str>>
    ELSE LET i == CHOOSE k \in DOMAIN str :
                      str[k] = sep /\ \A l \in 1..(k - 1) : str[l] # sep
         IN  <<SubSeq(str, 1, i - 1)>> \o Split(SubSeq(str, i + 1, Len(str)), sep)

DigitValue(c) == CHOOSE d \in 0..9 : DigitChars[d + 1] = c

\* the number the leading digits of a string spell; NaN when it starts with no digit.
\* This is parseInt(str, 10), and for the strings of the script Math.floor(parseFloat(str))
RECURSIVE ParseDigits(_, _)
ParseDigits(str, acc) ==
    IF str = <<>> \/ Head(str) \notin Range(DigitChars) THEN acc
    ELSE ParseDigits(Tail(str), 10 * acc + DigitValue(Head(str)))

parseInt(str) ==
    IF str = <<>> \/ Head(str) \notin Range(DigitChars) THEN NaN ELSE <<ParseDigits(str, 0), 1>>

\* a faulty variant of calcBeijingTime: the hour is not taken modulo 24
calcBeijingTimeNoWrap(centerTime) ==
    LET parts == Split(centerTime, ":")
        hours == parseInt(parts[1])[1]
        minutes == parseInt(parts[2])[1]
        seconds == parseInt(parts[3])[1]
    IN  padZero(hours + 8) \o <<":">> \o padZero(minutes) \o <<":">> \o padZero(seconds)

\* calcBeijingTime
calcBeijingTime(centerTime) ==
    LET parts == Split(centerTime, ":")
        hours == parseInt(parts[1])[1]
        minutes == parseInt(parts[2])[1]
        seconds == parseInt(parts[3])[1]
    IN  padZero((hours + 8) % 24) \o <<":">> \o padZero(minutes) \o <<":">> \o padZero(seconds)

\* n written with at least w digits
RECURSIVE ZeroPadded(_, _)
ZeroPadded(n, w) == IF Len(Str(n)) >= w THEN Str(n) ELSE <<"0">> \o ZeroPadded(n, w - 1)

\* DATE_ACQUIRED of a scene acquired on day n of the model's calendar, whose day 0 is
\* 2023-01-01 and whose months have 31 days
DateAcquired(n) ==
    Str(2023) \o <<"-">> \o padZero(1 + (n \div 31)) \o <<"-">> \o padZero(1 + (n % 31))

\* SCENE_CENTER_TIME, "HH:MM:SS.SSSSSSSZ"
SceneCenterTime(t) ==
    padZero(t.h) \o <<":">> \o padZero(t.m) \o <<":">> \o padZero(t.s) \o <<".">>
        \o ZeroPadded(t.frac, 7) \o <<"Z">>

\* CLOUD_COVER.toFixed(2) of a cover of c hundredths of a percent
toFixed2(c) == Str(c \div 100) \o <<".">> \o ZeroPadded(c % 100, 2)

\* a faulty variant of MetaCollection: the cloud cover bounds are exclusive
MetaCollectionExclusive(sat) ==
    SelectSeq(archive[1],
              LAMBDA s : /\ s.sat = sat
                         /\ s.aoi
                         /\ s.date >= TimePeriod(1).start
                         /\ s.date < TimePeriod(1).end
                         /\ s.cloud > cloud.min
                         /\ s.cloud < cloud.max)

\* the collection of one satellite: filterBounds, filterDate, and the CLOUD_COVER
\* filter gte(cloud_min) and lte(cloud_max)
MetaCollection(sat) ==
    SelectSeq(archive[1],
              LAMBDA s : /\ s.sat = sat
                         /\ s.aoi
                         /\ s.date >= TimePeriod(1).start
                         /\ s.date < TimePeriod(1).end
                         /\ s.cloud >= cloud.min
                         /\ s.cloud <= cloud.max)

\* L4collection.merge(L5collection).merge(L7collection).merge(L8collection).merge(L9collection)
mergedCollection ==
    MetaCollection("L4") \o MetaCollection("L5") \o MetaCollection("L7")
        \o MetaCollection("L8") \o MetaCollection("L9")

\* the path/row features: map to {WRS_PATH, WRS_ROW}, then distinct on both
MetaPathRowList ==
    Distinct([j \in DOMAIN mergedCollection |->
                 [WRS_PATH |-> mergedCollection[j].path, WRS_ROW |-> mergedCollection[j].row]])

\* what evaluate delivers for an image of the collection
FeatureInfo(s) ==
    [id |-> s.id,
     properties |-> [CLOUD_COVER |-> s.cloud,
                     DATE_ACQUIRED |-> DateAcquired(s.date),
                     SCENE_CENTER_TIME |-> SceneCenterTime(s.time),
                     WRS_PATH |-> s.path,
                     WRS_ROW |-> s.row]]

\* the header of the table: number, image id, cloud cover, acquisition date, time (UTC),
\* time (Beijing), year, month, Path, Row
TableHeader ==
    <<"number", "image ID", "cloud cover", "date acquired", "time (UTC)", "time (Beijing)",
      "year", "month", "Path", "Row">>

Selectors ==
    <<"number", "image_id", "cloud_cover", "date_acquired", "scene_center_time_utc",
      "scene_center_time_beijing", "year", "month", "path", "row">>

\* a faulty variant of RowData: the sequence number is the index of forEach, which starts at 0
RowDataFromZero(feature, index) ==
    LET dateParts == Split(feature.properties.DATE_ACQUIRED, "-")
    IN  <<Str(index),
          feature.id,
          toFixed2(feature.properties.CLOUD_COVER) \o <<"%">>,
          feature.properties.DATE_ACQUIRED,
          feature.properties.SCENE_CENTER_TIME,
          calcBeijingTime(feature.properties.SCENE_CENTER_TIME),
          dateParts[1], dateParts[2],
          feature.properties.WRS_PATH, feature.properties.WRS_ROW>>

\* row_data of the forEach callback, for the feature at index (from 0) of the collection
RowData(feature, index) ==
    LET dateParts == Split(feature.properties.DATE_ACQUIRED, "-")
    IN  <<Str(index + 1),
          feature.id,
          toFixed2(feature.properties.CLOUD_COVER) \o <<"%">>,
          feature.properties.DATE_ACQUIRED,
          feature.properties.SCENE_CENTER_TIME,
          calcBeijingTime(feature.properties.SCENE_CENTER_TIME),
          dateParts[1], dateParts[2],
          feature.properties.WRS_PATH, feature.properties.WRS_ROW>>

\* the feature pushed on featureList for a row
RowFeature(row_data) == [i \in 1..Len(Selectors) |-> <<Selectors[i], row_data[i]>>]

\* the script from its first line to its last: the collections, the two evaluate calls
\* and the map; the callbacks run later
MetaScript ==
    /\ script = "metadata"
    /\ pc = "start"
    /\ Logged(<<<<"collection", 1>>, <<"print count", 1>>, <<"print cloud range", 1>>,
                <<"path rows", 1>>, <<"evaluate path rows", 1>>, <<"evaluate table", 1>>,
                <<"map", 1>>>>)
    /\ pending' = {"path rows", "table"}
    /\ pc' = "done"
    /\ UNCHANGED <<harness, probe, world, params, idx, thrown, exports, fvcCalls, reported,
                   meta>>

\* the callback of pathRowList.evaluate
MetaPathRowsCallback ==
    /\ script = "metadata"
    /\ pc = "done"
    /\ "path rows" \in pending
    /\ pending' = pending \ {"path rows"}
    /\ reported' = Append(reported, "path rows")
    /\ pathRowList' = MetaPathRowList
    /\ Logged(<<<<"print path rows", 1>>>>)
    /\ UNCHANGED <<harness, probe, world, params, pc, idx, thrown, exports, fvcCalls,
                   cloud, tableData, featureList, tableExports>>

\* the callback of mergedCollection.evaluate
MetaTableCallback ==
    /\ script = "metadata"
    /\ pc = "done"
    /\ "table" \in pending
    /\ LET features == [j \in DOMAIN mergedCollection |-> FeatureInfo(mergedCollection[j])]
           rows == [j \in DOMAIN features |-> RowData(features[j], j - 1)]
           list == [j \in DOMAIN rows |-> RowFeature(rows[j])]
       IN  /\ tableData' = <<TableHeader>> \o rows
           /\ featureList' = list
           /\ tableExports' = Append(tableExports,
                                     [collection |-> list, selectors |-> Selectors])
    /\ pending' = pending \ {"table"}
    /\ reported' = Append(reported, "table")
    /\ Logged(<<<<"print table", 1>>, <<"getInfo", 1>>, <<"export table", 1>>>>)
    /\ UNCHANGED <<harness, probe, world, params, pc, idx, thrown, exports, fvcCalls,
                   cloud, pathRowList>>

MetaCatalogues == PeriodArchives \cup {<<SceneC, SceneA, SceneD, SceneB>>}

CloudBounds ==
    {[min |-> 0, max |-> 10000], [min |-> 1234, max |-> 5000], [min |-> 1235, max |-> 4999],
     [min |-> 0, max |-> 0]}

InitMeta ==
    /\ IdleHarness
    /\ archive \in {<<Dated(a, 1)>> : a \in MetaCatalogues}
    /\ platform = "zero"
    /\ args = [satelliteId |-> "L8", ndviType |-> "max", autoThreshold |-> "false",
               ndvi_soil |-> <<1, 5>>, ndvi_veg |-> <<43, 50>>]
    /\ params = args
    /\ config = [enabled |-> {}, statType |-> "mean"]
    /\ script = "metadata"
    /\ pc = "start" /\ idx = 0 /\ thrown = "none"
    /\ exports = <<>> /\ fvcCalls = <<>> /\ log = <<>>
    /\ pending = {} /\ reported = <<>>
    /\ cloud \in CloudBounds
    /\ pathRowList = <<>> /\ tableData = <<>> /\ featureList = <<>> /\ tableExports = <<>>

NextMeta == MetaScript \/ MetaPathRowsCallback \/ MetaTableCallback

SpecMeta == InitMeta /\ [][NextMeta]_vars

\* the scene times and dates the row of a scene is built for
TimeInputs ==
    [time : [h : 0..23, m : 0..59, s : 0..59, frac : {0, 9999990}], date : {30}]

\* the row_data the forEach callback builds for a scene acquired at timeIn
ApplyRowData ==
    /\ script = "row_data"
    /\ timeOut = <<>>
    /\ timeOut' = <<RowData(FeatureInfo([SceneA EXCEPT !.time = timeIn.time,
                                                       !.date = timeIn.date]), 0)>>
    /\ UNCHANGED <<harness, driver, meta, satIn, bandsOut, thrIn, thrOut, timeIn>>

InitRowData ==
    /\ script = "row_data"
    /\ timeIn \in TimeInputs /\ timeOut = <<>>
    /\ IdleMask /\ IdleIdx /\ IdleFvc /\ IdleAgg /\ IdleBands /\ IdleThr /\ IdleDriver

SpecRowData == InitRowData /\ [][ApplyRowData]_vars

\* the two scripts that compute a path/row view
SpecViews == (InitStats \/ InitMeta) /\ [][StatsRun \/ NextMeta]_vars

\* the two scripts that merge the collections of several satellites
SpecMerged == (InitBatch \/ InitMeta) /\ [][NextBatch \/ NextMeta]_vars

----------------------------------------------------------------------------
(* Everything together: one of the scripts, or one function on drawn inputs *)

Init ==
    \/ InitMask \/ InitIndex \/ InitCover \/ InitAgg \/ InitBands \/ InitThresholds
    \/ InitRowData
    \/ InitFVC \/ InitBatch \/ InitStats \/ InitMeta

Next ==
    \/ ApplyMaskClouds \/ ApplyIndex \/ ApplyFVC \/ ApplyComposite \/ ApplyGetBandNames
    \/ ApplyThresholds \/ ApplyRowData
    \/ NextFVC
    \/ NextBatch
    \/ StatsRun
    \/ NextMeta

Spec == Init /\ [][Next]_vars

----------------------------------------------------------------------------
(* Properties of the two batch drivers *)

\* the callback has been entered for period j
Attempted(j) == <<"collection", j>> \in Range(log)

Exported(j) == \E e \in Range(exports) : e.period = j

\* the errors a period callback can end in, as opposed to those of the validation
PeriodErrors == {"ReferenceError", "DegenerateThreshold"}

\* C4: a period whose threshold pair has ndvi_veg = ndvi_soil ends in a
\* DegenerateThreshold error, and no FVC raster is exported for it
C4_DegenerateThresholdFatal ==
    \A c \in Range(fvcCalls) :
        c.soil = c.veg => (thrown = "DegenerateThreshold" /\ ~Exported(c.period))

\* C7: an error raised while one period is processed aborts only that period: every
\* other period of timePeriods is still processed
C7_PeriodFailureIsolated ==
    (pc = "thrown" /\ thrown \in PeriodErrors) =>
        \A j \in DOMAIN archive : j # idx => Attempted(j)

\* the composite the callback builds for period j
PeriodComposite(j) == CompositeImage(FvcCollection(j), params.ndviType)

PercentilesAvailable(j) ==
    LET th == calculateNDVIThresholds(PeriodComposite(j))
    IN  IsNum(th.ndvi_soil) /\ IsNum(th.ndvi_veg)

\* C8: in automatic-threshold mode the run never ends with an error raised in a period,
\* and a period whose percentiles are unavailable is computed with the fixed defaults,
\* with a warning, and exported
C8_AutoModeFallsBack ==
    (pc \in {"loop", "done", "thrown"} /\ params.autoThreshold = "true") =>
        /\ thrown \notin PeriodErrors
        /\ \A j \in DOMAIN archive :
              (Attempted(j) /\ j < idx /\ Len(FvcCollection(j)) > 0
                 /\ ~PercentilesAvailable(j)) =>
                  /\ <<"warn thresholds", j>> \in Range(log)
                  /\ Exported(j)
                  /\ \E c \in Range(fvcCalls) :
                        c.period = j /\ c.soil = params.ndvi_soil /\ c.veg = params.ndvi_veg

\* C9: in automatic-threshold mode the pair passed to calculateFVC for a period is the
\* 5th and 95th percentile of that period's composite over the AOI's bounding box
C9_AutoPairIsPercentiles ==
    (pc \in {"loop", "done", "thrown"} /\ params.autoThreshold = "true") =>
        \A j \in DOMAIN archive :
            (Attempted(j) /\ Len(FvcCollection(j)) > 0 /\ PercentilesAvailable(j)) =>
                \E c \in Range(fvcCalls) :
                    /\ c.period = j
                    /\ c.soil = calculateNDVIThresholds(PeriodComposite(j)).ndvi_soil
                    /\ c.veg = calculateNDVIThresholds(PeriodComposite(j)).ndvi_veg

\* C10: in fixed-threshold mode the pair used is the pair the caller supplied, a
\* supplied 0 included; a default stands in only for a value left unspecified
C10_FixedPairUnchanged ==
    params.autoThreshold # "true" =>
        \A c \in Range(fvcCalls) :
            /\ c.soil = (IF args.ndvi_soil = Undefined THEN DefaultSoil ELSE args.ndvi_soil)
            /\ c.veg = (IF args.ndvi_veg = Undefined THEN DefaultVeg ELSE args.ndvi_veg)

\* the collection the running script builds for period j
ScriptCollection(j) ==
    IF script = "fvc" THEN FvcCollection(j) ELSE BatchProcessed(j)

\* C6: a period whose scene collection is empty produces no raster export and no
\* error, and every later period is still processed and, when it has scenes, exported
C6_EmptyPeriodSkipped ==
    \A j \in DOMAIN archive :
        (Attempted(j) /\ Len(ScriptCollection(j)) = 0) =>
            /\ ~Exported(j)
            /\ ~(pc = "thrown" /\ idx = j)
            /\ pc = "done" =>
                  \A k \in DOMAIN archive :
                      (k > j /\ Len(ScriptCollection(k)) > 0) => Exported(k)

\* the steps that request, filter, map, reduce, show or export imagery
ImagerySteps ==
    {"collection", "path rows", "mask", "index", "composite", "reduceRegion", "fvc",
     "export", "map"}

\* the running entry point was given an unsupported satellite or statistic
BadSelector ==
    IF script = "fvc"
    THEN ~Supported(args.satelliteId) \/ OrDefaultStr(args.ndviType, "max") \notin {"mean", "max"}
    ELSE IF script = "ndvi stats"
    THEN ~Supported(args.satelliteId) \/ args.statType \notin {"mean", "max"}
    ELSE IF script = "ndvi batch"
    THEN config.statType \notin {"mean", "max"} \/ ~(config.enabled \subseteq Satellites)
    ELSE FALSE

\* C12: an unsupported satellite identifier or a statistic other than 'mean'/'max' ends
\* the entry point in a fatal error raised before any image collection is requested,
\* filtered, mapped or exported
C12_ValidationBeforeImagery ==
    (BadSelector /\ pc \in {"done", "thrown"}) =>
        /\ pc = "thrown"
        /\ \A i \in DOMAIN log : log[i][1] \notin ImagerySteps
        /\ exports = <<>>

\* scene s of the catalogue belongs to one of the satellites sats, intersects the AOI,
\* was acquired in period p and has a cloud cover from lo to hi, both included
Qualifies(s, p, sats, lo, hi) ==
    /\ s.sat \in sats
    /\ s.aoi
    /\ TimePeriod(p).start <= s.date /\ s.date < TimePeriod(p).end
    /\ lo <= s.cloud /\ s.cloud <= hi

\* the collection holds the scenes of S, each once, and nothing else
HoldsExactly(ids, S) ==
    /\ Range(ids) = {s.id : s \in S}
    /\ Len(ids) = Cardinality(S)

\* C14: the merged collection of a time window holds exactly the scenes of the enabled
\* satellites that intersect the AOI, were acquired in [start, end) and have a cloud
\* cover within the bounds, both inclusive (the batch NDVI script sets no bounds: 0 to 100)
C14_MergedCollectionExact ==
    /\ script = "ndvi batch" =>
          \A e \in Range(exports) :
              HoldsExactly([j \in DOMAIN e.input |-> e.input[j].id],
                           {s \in Range(archive[e.period]) :
                               Qualifies(s, e.period, config.enabled, 0, 10000)})
    /\ (script = "metadata" /\ tableData # <<>>) =>
          HoldsExactly([j \in 1..(Len(tableData) - 1) |-> tableData[j + 1][2]],
                       {s \in Range(archive[1]) :
                           Qualifies(s, 1, Satellites, cloud.min, cloud.max)})

\* scenes at both cloud cover bounds are in the table, scenes outside them are not
C14_Witness ==
    /\ script = "metadata" /\ cloud = [min |-> 1234, max |-> 5000]
    /\ Len(archive[1]) = 4 /\ Len(tableData) = 3

\* an export of the batch script whose collection leaves out the scene acquired on the
\* end day and the scene outside the AOI
C14_WitnessBatch ==
    /\ script = "ndvi batch"
    /\ \E e \in Range(exports) : Len(e.input) = 1 /\ Len(archive[e.period]) = 3

\* the place of a step of period j in the log, 0 when the step was not taken
Pos(tag, j) ==
    IF <<tag, j>> \in Range(log) THEN CHOOSE i \in DOMAIN log : log[i] = <<tag, j>> ELSE 0

\* step b of period j was taken only after step a
After(a, b, j) == Pos(b, j) > 0 => (Pos(a, j) > 0 /\ Pos(a, j) < Pos(b, j))

CloudOrShadow(px) == Bit(px["QA_PIXEL"], 3) = 1 \/ Bit(px["QA_PIXEL"], 4) = 1

\* the NDVI of a pixel of a scene as filtered, when the mask is applied first
MaskedThenIndexed(px, sat) ==
    IF CloudOrShadow(px) THEN NoValue ELSE computeNDVI(px, sat, platform)

\* C15: for every period the stages run in the order cloud masking, index, temporal
\* aggregation, FVC: no index value comes from a cloud or shadow pixel, the composite is
\* built from the masked and indexed scenes, and FVC is derived from that composite
C15_StageOrder ==
    /\ \A j \in DOMAIN archive :
          After("mask", "index", j) /\ After("index", "composite", j)
              /\ After("composite", "fvc", j)
    /\ \A e \in Range(exports) :
          e.product = "FVC" =>
              \E c \in Range(fvcCalls) :
                  /\ c.period = e.period
                  /\ \A k \in Pixels :
                        e.image[k] =
                            calculateFVC(
                                Composite(params.ndviType,
                                          [i \in DOMAIN e.input |->
                                              MaskedThenIndexed(e.input[i].px[k], e.input[i].sat)]),
                                c.soil, c.veg, platform)

\* an FVC raster was exported for a period with a cloud pixel among its scenes
C15_Witness ==
    \E e \in Range(exports) :
        /\ e.product = "FVC"
        /\ \E i \in DOMAIN e.input : CloudOrShadow(e.input[i].px[1])
        /\ \E i \in DOMAIN e.input : ~CloudOrShadow(e.input[i].px[1])
        /\ Pos("fvc", e.period) > 0

\* the (path, row) pairs of the scenes of a collection
PathRowPairs(coll) == {<<coll[j].path, coll[j].row>> : j \in DOMAIN coll}

NoRepeat(view) == \A i, j \in DOMAIN view : view[i] = view[j] => i = j

\* C16: the path/row view holds each distinct (path, row) pair of the collection exactly
\* once and no other pair, and the collection that is masked, indexed and aggregated (or
\* tabulated) still holds every scene, those sharing a pair included
C16_PathRowViewExact ==
    /\ (script = "ndvi stats" /\ pc = "done") =>
          LET e == exports[1]
          IN  /\ NoRepeat(pathRowList)
              /\ Len(pathRowList) = Cardinality(PathRowPairs(e.input))
              /\ \A v \in Range(pathRowList) :
                    \E pr \in PathRowPairs(e.input) : Split(v, "_") = <<Str(pr[1]), Str(pr[2])>>
              /\ [j \in DOMAIN e.collection |-> e.collection[j].id]
                     = [j \in DOMAIN e.input |-> e.input[j].id]
              /\ e.input = SatCollection(1, params.satelliteId)
    /\ (script = "metadata" /\ "path rows" \in Range(reported)) =>
          /\ NoRepeat(pathRowList)
          /\ {<<v.WRS_PATH, v.WRS_ROW>> : v \in Range(pathRowList)}
                 = PathRowPairs(mergedCollection)
          /\ tableData # <<>> => Len(tableData) = Len(mergedCollection) + 1

\* three scenes, two of them on the same path and row: two pairs in the view, three
\* scenes in the processed collection
C16_Witness ==
    /\ script = "ndvi stats" /\ pc = "done"
    /\ Len(pathRowList) = 2 /\ Len(exports[1].collection) = 3

\* C17: the cloud mask never removes a scene: the processed collection has as many
\* scenes as the filtered collection, a scene that is all cloud or shadow included, and a
\* pixel the mask excludes has no value in any band, the index band included
C17_MaskKeepsScenes ==
    \A e \in Range(exports) :
        /\ Len(e.collection) = Len(e.input)
        /\ e.scenes = Len(e.input)
        /\ \A i \in DOMAIN e.input : \A k \in Pixels :
              LET raw == e.input[i].px[k]
                  out == e.collection[i].px[k]
              IN  IF CloudOrShadow(raw)
                  THEN /\ out["NDVI"] = NoValue
                       /\ \A b \in BandNames : Rescale(out, b) = NoValue
                  ELSE \A b \in BandNames : IsNum(Rescale(out, b))

\* a collection whose only scene is all cloud and shadow was processed and exported
C17_Witness ==
    /\ script = "ndvi stats"
    /\ \E e \in Range(exports) :
          /\ Len(e.collection) = 1
          /\ \A k \in Pixels : CloudOrShadow(e.input[1].px[k])

\* C18: when a region reduction may run as a bounded-effort approximation because the
\* pixel count exceeds the budget, the scalars it returns are labelled as approximate
C18_ApproximateLabelled ==
    (thrOut # <<>> /\ thrIn.overBudget) =>
        /\ "approximate" \in DOMAIN thrOut[1]
        /\ thrOut[1]["approximate"] = TRUE

\* the orders in which n scenes can be listed
Orders(n) == {f \in [1..n -> 1..n] : \A i, j \in 1..n : f[i] = f[j] => i = j}

\* C19: the mean and max composites are the same for every order of the scenes, and so for
\* every order in which the collections of the enabled satellites are merged
C19_CompositeOrderFree ==
    \A e \in Range(exports) :
        \A f \in Orders(Len(e.collection)) :
            CompositeImage([j \in DOMAIN e.collection |-> e.collection[f[j]]], config.statType)
                = e.image

\* a composite of three scenes of which two have different values at a pixel
C19_Witness ==
    /\ script = "ndvi batch"
    /\ \E e \in Range(exports) :
          /\ Len(e.collection) = 3
          /\ \E i, j \in DOMAIN e.collection :
                /\ IsNum(e.collection[i].px[1]["NDVI"]) /\ IsNum(e.collection[j].px[1]["NDVI"])
                /\ e.collection[i].px[1]["NDVI"] # e.collection[j].px[1]["NDVI"]

\* a composite over the merged collections of two satellites
C19_WitnessSatellites ==
    /\ script = "ndvi batch"
    /\ \E e \in Range(exports) :
          \E i, j \in DOMAIN e.collection : e.collection[i].sat # e.collection[j].sat

\* the number a string of digits spells
NumberOf(str) == ParseDigits(str, 0)

\* row is the table row of scene s, the j-th of the merged collection
RowOfScene(row, s, j) ==
    /\ Len(row) = 10
    /\ NumberOf(row[1]) = j /\ row[1] = Str(j)
    /\ row[2] = s.id
    /\ LET parts == Split(row[3], ".")
       IN  /\ Len(parts) = 2 /\ Len(parts[2]) = 3 /\ parts[2][3] = "%"
           /\ 100 * NumberOf(parts[1]) + NumberOf(parts[2]) = s.cloud
    /\ row[4] = DateAcquired(s.date)
    /\ row[5] = SceneCenterTime(s.time)
    /\ LET parts == Split(row[6], ":")
       IN  /\ Len(parts) = 3 /\ \A i \in 1..3 : Len(parts[i]) = 2
           /\ NumberOf(parts[1]) = (s.time.h + 8) % 24
           /\ NumberOf(parts[2]) = s.time.m
           /\ NumberOf(parts[3]) = s.time.s
    /\ row[7] = SubSeq(row[4], 1, 4)
    /\ row[8] = SubSeq(row[4], 6, 7)
    /\ row[9] = s.path
    /\ row[10] = s.row

\* C20: the metadata table has one data row per scene of the merged collection, in
\* collection order, with the ten columns sequence number, scene id, cloud cover, date,
\* UTC time, UTC+8 time, year, month, path, row; the sequence numbers are 1, 2, ..., n;
\* the exported feature list holds the same rows in the same order
C20_TableRows ==
    tableData # <<>> =>
        /\ Len(tableData) = Len(mergedCollection) + 1
        /\ tableData[1] = TableHeader /\ Len(TableHeader) = 10
        /\ \A j \in DOMAIN mergedCollection :
              RowOfScene(tableData[j + 1], mergedCollection[j], j)
        /\ Len(featureList) = Len(mergedCollection)
        /\ \A j \in DOMAIN featureList :
              /\ Len(featureList[j]) = 10
              /\ \A i \in 1..10 : featureList[j][i] = <<Selectors[i], tableData[j + 1][i]>>
        /\ Len(tableExports) = 1
        /\ tableExports[1].collection = featureList
        /\ tableExports[1].selectors = Selectors

\* a table of four rows, the scene of Landsat 5 ahead of those of Landsat 8
C20_Witness ==
    /\ Len(tableData) = 5
    /\ tableData[2][2] = "D" /\ tableData[2][1] = <<"1">>
    /\ tableData[5][1] = <<"4">>

\* the steps that construct the pipeline of a period
ConstructionSteps == {"collection", "mask", "index", "composite", "fvc"}

\* C21: while the pipeline of a period is constructed (collection, masking, index,
\* composite, FVC) no blocking evaluation (getInfo) is performed: every getInfo of a
\* period comes after the last construction step of that period
C21_NoEvaluationDuringConstruction ==
    \A i, k \in DOMAIN log :
        (log[i][1] = "getInfo" /\ log[i][2] >= 1 /\ i < k /\ log[k][2] = log[i][2]) =>
            log[k][1] \notin ConstructionSteps

\* C22: in the batch NDVI script the banner that batch processing is complete is printed
\* before any period's result callback runs; the callbacks run in any order (the witnesses
\* reach both orders of two periods)
C22_BannerBeforeCallbacks ==
    script = "ndvi batch" =>
        /\ \A i \in DOMAIN log :
              log[i][1] = "print result" =>
                  /\ \E k \in 1..(i - 1) : log[k] = <<"print complete", 0>>
                  /\ \E k \in 1..(i - 1) : log[k] = <<"evaluate", log[i][2]>>
        /\ reported # <<>> => pc = "done"
        /\ NoRepeat(reported)

\* the callback of the second period ran before that of the first
C22_Witness == script = "ndvi batch" /\ reported = <<2, 1>>

\* the callbacks ran in the order of timePeriods
C22_WitnessInOrder == script = "ndvi batch" /\ reported = <<1, 2>>

\* the characters of str are decimal digits
AllDigits(str) == \A i \in DOMAIN str : str[i] \in Range(DigitChars)

\* C23: for every UTC scene time with hours h in 0..23 calcBeijingTime returns HH:MM:SS
\* with hour (h + 8) mod 24, the minutes of the input and the floor of its seconds, each
\* of two digits; the row's date, year and month stay those of the UTC date, also when
\* the hour wraps past midnight
C23_BeijingTime ==
    timeOut # <<>> =>
        LET row == timeOut[1]
            out == row[6]
            t == timeIn.time
        IN  /\ Len(out) = 8 /\ out[3] = ":" /\ out[6] = ":"
            /\ AllDigits(SubSeq(out, 1, 2)) /\ AllDigits(SubSeq(out, 4, 5))
            /\ AllDigits(SubSeq(out, 7, 8))
            /\ NumberOf(SubSeq(out, 1, 2)) = (t.h + 8) % 24
            /\ NumberOf(SubSeq(out, 1, 2)) \in 0..23
            /\ NumberOf(SubSeq(out, 4, 5)) = t.m
            /\ NumberOf(SubSeq(out, 7, 8)) = t.s
            /\ row[5] = SceneCenterTime(t)
            /\ row[4] = DateAcquired(timeIn.date)
            /\ row[7] = SubSeq(DateAcquired(timeIn.date), 1, 4)
            /\ row[8] = SubSeq(DateAcquired(timeIn.date), 6, 7)

\* 23:59:59.999999 UTC on 2023-01-31: 07:59:59 in the row, the date still 2023-01-31
C23_Witness ==
    /\ timeOut # <<>>
    /\ timeIn.time = [h |-> 23, m |-> 59, s |-> 59, frac |-> 9999990]
    /\ timeOut[1][6] = <<"0", "7", ":", "5", "9", ":", "5", "9">>
    /\ timeOut[1][4] = <<"2", "0", "2", "3", "-", "0", "1", "-", "3", "1">>
    /\ timeOut[1][8] = <<"0", "1">>

====
